---- MODULE Spec2Model ----
(***************************************************************************)
(* The ha-web-rtc-player element: one LitElement instance, the playback    *)
(* attempts (_startWebRtc calls) it has started, and the browser and       *)
(* backend objects those attempts created (peer connections, media         *)
(* streams, signaling subscriptions, video elements).                      *)
(*                                                                         *)
(* The repository holds two revisions of the element.  `variant` selects   *)
(* which one runs; it is fixed by Init:                                    *)
(*   "part_000"  - src/unnamed/part_000                                    *)
(*   "player_ts" - src/src/components/ha-web-rtc-player.ts                 *)
(*                                                                         *)
(* JavaScript runs each handler to its next await without interruption, so *)
(* every action is one such run.  Handles are positive integers, 0 stands  *)
(* for undefined.  The peer connection, the MediaStream and the signaling  *)
(* subscription created by attempt t all carry the identifier t.           *)
(***************************************************************************)
EXTENDS Integers, Sequences, FiniteSets

\* ---------------------------------------------------------------- bounds
MaxStarts == 2          \* _startWebRtc calls
MaxEntities == 2        \* distinct entityid values
MaxCandidates == 1      \* local icecandidate events (all connections)
MaxAnswers == 1         \* answer events (all subscriptions)
MaxRemoteCandidates == 1 \* remote candidate events (all subscriptions)
MaxTracks == 1          \* track events (all connections)
MaxLoads == 1           \* loadeddata notifications

Attempts == 1..MaxStarts
Entities == 1..MaxEntities
Videos == 1..(MaxStarts + 1)
Answers == 1..MaxAnswers

NoError == "undefined"
ErrStart == "Failed to start WebRTC stream: "
ErrConnect == "Failed to connect WebRTC stream: "

VARIABLES
  variant,            \* which revision of the element runs
  \* ---- the element's properties and fields
  entityid,           \* @property entityid (0: not set yet)
  _error,             \* @state _error
  videoElCached,      \* the cached @query has stored a result
  _videoEl,           \* the cached @query result (0: null)
  _peerConnection,
  _remoteStream,
  _unsub,
  _sessionId,
  _candidatesList,
  \* ---- LitElement lifecycle
  isConnected,
  updatingEnabled,    \* connectedCallback has run once (enableUpdating)
  hasUpdated,
  isUpdatePending,
  changedProperties,  \* the keys of the pending update's map that updated() reads
  \* ---- the rendered DOM
  rendered,           \* "none" | "video" | "alert"
  video,              \* the <video id="remote-stream"> in the render root (0: none)
  nVideos,            \* video elements created so far
  srcObject,          \* video element -> MediaStream assigned to it
  \* ---- the _startWebRtc calls
  nStarts,
  task,               \* attempt -> [pc, on, doomed]
  candidates,         \* attempt -> the closure variable `candidates`
  \* ---- RTCPeerConnection objects
  pcState,            \* "none" | "open" | "closed"
  localDesc,          \* setLocalDescription has been called on it
  remoteDesc,         \* setRemoteDescription has succeeded on it
  trackListeners,     \* connection -> the streams of its "track" listeners
  remoteCandidates,   \* connection -> subscriptions whose candidates it got
  nCandidates,
  \* ---- signaling subscriptions (webRtcOffer)
  subState,           \* "none" | "active" | "rejected" | "unsubscribed"
  unsubQueued,        \* _unsub.then(unsub => unsub()) was registered
  offerSdp,           \* subscription -> candidates contained in the offer
  offerPc,            \* subscription -> connection the field held when sent
  sessionDelivered,
  nRemoteCandidates,
  \* ---- _handleAnswer calls
  srd,                \* answer -> [st, sub, on, doomed]
  \* ---- media
  streamTracks,       \* stream -> tracks added to it
  stopped,            \* tracks on which stop() was called
  nTracks,
  \* ---- calls out of the element
  submitted,          \* addWebRtcCandidate calls, in order
  nLoadedData,        \* loadeddata notifications of a rendered video
  nLoadEvents,        \* "load" events fired by the element
  \* ---- history
  nTriggers           \* entityid changes, and connectedCallback calls after the first

fields == <<entityid, _error, videoElCached, _videoEl, _peerConnection,
            _remoteStream, _unsub, _sessionId, _candidatesList>>
lit == <<isConnected, updatingEnabled, hasUpdated, isUpdatePending, changedProperties>>
dom == <<rendered, video, nVideos, srcObject>>
tasks == <<nStarts, task, candidates>>
pcs == <<pcState, localDesc, remoteDesc, trackListeners, remoteCandidates, nCandidates>>
subs == <<subState, unsubQueued, offerSdp, offerPc, sessionDelivered, nRemoteCandidates>>
media == <<streamTracks, stopped, nTracks>>
out == <<submitted, nLoadedData, nLoadEvents>>
vars == <<variant, fields, lit, dom, tasks, pcs, subs, srd, media, out, nTriggers>>

\* ------------------------------------------------------------------ Init
NoTask == [pc |-> "idle", on |-> 0, doomed |-> FALSE]
NoSrd == [st |-> "none", sub |-> 0, on |-> 0, doomed |-> FALSE]

Init ==
  /\ variant \in {"part_000", "player_ts"}
  /\ entityid = 0
  /\ _error = NoError
  /\ videoElCached = FALSE
  /\ _videoEl = 0
  /\ _peerConnection = 0
  /\ _remoteStream = 0
  /\ _unsub = 0
  /\ _sessionId = 0
  /\ _candidatesList = <<>>
  /\ isConnected = FALSE
  /\ updatingEnabled = FALSE
  /\ hasUpdated = FALSE
  /\ isUpdatePending = TRUE
  /\ changedProperties = {}
  /\ rendered = "none"
  /\ video = 0
  /\ nVideos = 0
  /\ srcObject = [v \in Videos |-> 0]
  /\ nStarts = 0
  /\ task = [t \in Attempts |-> NoTask]
  /\ candidates = [t \in Attempts |-> <<>>]
  /\ pcState = [p \in Attempts |-> "none"]
  /\ localDesc = [p \in Attempts |-> FALSE]
  /\ remoteDesc = [p \in Attempts |-> FALSE]
  /\ trackListeners = [p \in Attempts |-> <<>>]
  /\ remoteCandidates = [p \in Attempts |-> {}]
  /\ nCandidates = 0
  /\ subState = [s \in Attempts |-> "none"]
  /\ unsubQueued = [s \in Attempts |-> FALSE]
  /\ offerSdp = [s \in Attempts |-> <<>>]
  /\ offerPc = [s \in Attempts |-> 0]
  /\ sessionDelivered = [s \in Attempts |-> FALSE]
  /\ nRemoteCandidates = 0
  /\ srd = [a \in Answers |-> NoSrd]
  /\ streamTracks = [st \in Attempts |-> {}]
  /\ stopped = {}
  /\ nTracks = 0
  /\ submitted = <<>>
  /\ nLoadedData = 0
  /\ nLoadEvents = 0
  /\ nTriggers = 0

\* ------------------------------------------------------- the cached @query
\* What an access to this._videoEl leaves in the cache, given the DOM (r: what
\* is rendered, v: the rendered video element) and whether the element has
\* completed an update.  A stored result is returned as is; otherwise the
\* render root is queried for #remote-stream.  A null result found before the
\* first update is stored by lit 2 and not stored by lit 3.
Query(r, v, upd) ==
  IF videoElCached THEN {[cached |-> TRUE, el |-> _videoEl]}
  ELSE IF r = "video" THEN {[cached |-> TRUE, el |-> v]}
  ELSE IF upd THEN {[cached |-> TRUE, el |-> 0]}
  ELSE {[cached |-> TRUE, el |-> 0], [cached |-> FALSE, el |-> 0]}

\* ---------------------------------------------------------------- _cleanUp
\* The values _cleanUp leaves behind; q is the outcome of its access to
\* this._videoEl.  removeAttribute("src") and load() leave srcObject alone.
Held ==
  [ stopped |-> stopped, remoteStream |-> _remoteStream,
    videoElCached |-> videoElCached, videoEl |-> _videoEl,
    pcState |-> pcState, peerConnection |-> _peerConnection,
    unsubQueued |-> unsubQueued, unsub |-> _unsub,
    sessionId |-> _sessionId, candidatesList |-> _candidatesList ]

StopTracks ==
  IF _remoteStream # 0 THEN stopped \cup streamTracks[_remoteStream] ELSE stopped

ClosePeerConnection ==
  IF _peerConnection # 0 THEN [pcState EXCEPT ![_peerConnection] = "closed"]
  ELSE pcState

QueueUnsub ==
  IF _unsub # 0 THEN [unsubQueued EXCEPT ![_unsub] = TRUE] ELSE unsubQueued

_cleanUp(q) ==
  [ stopped |-> StopTracks, remoteStream |-> 0,
    videoElCached |-> q.cached, videoEl |-> q.el,
    pcState |-> ClosePeerConnection, peerConnection |-> 0,
    unsubQueued |-> QueueUnsub, unsub |-> 0,
    sessionId |-> 0, candidatesList |-> <<>> ]

_cleanUp_ts(q) ==
  [ Held EXCEPT !.stopped = StopTracks, !.remoteStream = 0,
                !.videoElCached = q.cached, !.videoEl = q.el,
                !.pcState = ClosePeerConnection, !.peerConnection = 0 ]

CleanUp(q) == IF variant = "part_000" THEN _cleanUp(q) ELSE _cleanUp_ts(q)

\* The handles as an operation leaves them.
Leave(h) ==
  /\ stopped' = h.stopped
  /\ _remoteStream' = h.remoteStream
  /\ videoElCached' = h.videoElCached
  /\ _videoEl' = h.videoEl
  /\ pcState' = h.pcState
  /\ _peerConnection' = h.peerConnection
  /\ unsubQueued' = h.unsubQueued
  /\ _unsub' = h.unsub
  /\ _sessionId' = h.sessionId
  /\ _candidatesList' = h.candidatesList

\* --------------------------------------------- _startWebRtc, to its first await
\* part_000 cleans up first; ha-web-rtc-player.ts does not.
startWebRtc_begin(q) == _cleanUp(q)
startWebRtc_begin_ts(q) == Held

Begin(q) == IF variant = "part_000" THEN startWebRtc_begin(q) ELSE startWebRtc_begin_ts(q)

\* _startWebRtc up to `await fetchWebRtcClientConfiguration(...)`, with the DOM
\* as (r, v) and hasUpdated as upd: the handles are left as Begin leaves them,
\* _error is cleared, and the call is suspended at the configuration fetch.
_startWebRtc(r, v, upd) ==
  /\ nStarts < MaxStarts
  /\ \E q \in Query(r, v, upd) : Leave(Begin(q))
  /\ _error' = NoError
  /\ nStarts' = nStarts + 1
  /\ task' = [task EXCEPT ![nStarts + 1] = [NoTask EXCEPT !.pc = "fetch"]]
  /\ UNCHANGED candidates

\* Starts that are certain to come: an update with entityid among its changed
\* properties is pending.
Budget == nStarts + (IF "entityid" \in changedProperties THEN 1 ELSE 0)

Trigger == IF nTriggers < MaxStarts THEN nTriggers + 1 ELSE nTriggers

\* A new value of _error requests an update (a @state property).
RequestOnError(e) ==
  /\ isUpdatePending' = (isUpdatePending \/ e # _error)
  /\ UNCHANGED changedProperties

\* ------------------------------------------------------ lifecycle callbacks
connectedCallback ==
  /\ ~isConnected
  /\ hasUpdated => Budget < MaxStarts
  /\ isConnected' = TRUE
  /\ updatingEnabled' = TRUE
  /\ nTriggers' = IF updatingEnabled THEN Trigger ELSE nTriggers
  /\ IF hasUpdated
       THEN /\ _startWebRtc(rendered, video, hasUpdated)
            /\ RequestOnError(NoError)
       ELSE /\ UNCHANGED <<_error, videoElCached, _videoEl, _peerConnection, _remoteStream,
                           _unsub, _sessionId, _candidatesList, tasks, pcState,
                           unsubQueued, stopped, isUpdatePending, changedProperties>>
  /\ UNCHANGED <<variant, entityid, hasUpdated, dom, localDesc, remoteDesc,
                 trackListeners, remoteCandidates, nCandidates, subState, offerSdp,
                 offerPc, sessionDelivered, nRemoteCandidates, srd, streamTracks,
                 nTracks, out>>

disconnectedCallback ==
  /\ isConnected
  /\ isConnected' = FALSE
  /\ \E q \in Query(rendered, video, hasUpdated) : Leave(CleanUp(q))
  /\ UNCHANGED <<variant, entityid, _error, updatingEnabled, hasUpdated, isUpdatePending,
                 changedProperties, dom, tasks, localDesc, remoteDesc,
                 trackListeners, remoteCandidates, nCandidates, subState, offerSdp,
                 offerPc, sessionDelivered, nRemoteCandidates, srd, streamTracks,
                 nTracks, out, nTriggers>>

\* The owner of the element sets entityid to another value (each time a
\* value it has not had before).
SetEntityid ==
  /\ entityid + 1 \in Entities
  /\ entityid' = entityid + 1
  /\ "entityid" \in changedProperties \/ Budget < MaxStarts
  /\ changedProperties' = changedProperties \cup {"entityid"}
  /\ isUpdatePending' = TRUE
  /\ nTriggers' = Trigger
  /\ UNCHANGED <<variant, _error, videoElCached, _videoEl, _peerConnection, _remoteStream,
                 _unsub, _sessionId, _candidatesList, isConnected, updatingEnabled,
                 hasUpdated, dom, tasks, pcs, subs, srd, media, out>>

\* -------------------------------------------------------- render and updated
\* render(): the alert when _error is set, the video otherwise.  Going from
\* the alert (or from nothing) to the video template creates a new element.
renderAlert == _error # NoError

RenderedAfter == IF renderAlert THEN "alert" ELSE "video"
NewVideo == ~renderAlert /\ rendered # "video"
VideoAfter == IF renderAlert THEN 0 ELSE IF NewVideo THEN nVideos + 1 ELSE video

\* The owner sets another property (hass, controls, muted, ...), and the
\* update this requests runs: render() and updated() with a changedProperties
\* that lacks entityid.  With an update already requested the new value
\* joins that update.
SetOtherProperty ==
  /\ updatingEnabled
  /\ ~isUpdatePending
  /\ rendered' = RenderedAfter
  /\ video' = VideoAfter
  /\ nVideos' = IF NewVideo THEN nVideos + 1 ELSE nVideos
  /\ hasUpdated' = TRUE
  /\ UNCHANGED <<variant, fields, isConnected, updatingEnabled, isUpdatePending,
                 changedProperties, srcObject, tasks, pcs, subs, srd, media, out,
                 nTriggers>>

\* updated() without its early return: every update starts an attempt.
updatedStartsAlways == TRUE

\* updated(changedProperties): a new attempt only when entityid changed.
updatedStarts == "entityid" \in changedProperties

\* One reactive update: render(), then updated().
performUpdate ==
  /\ updatingEnabled
  /\ isUpdatePending
  /\ rendered' = RenderedAfter
  /\ video' = VideoAfter
  /\ nVideos' = IF NewVideo THEN nVideos + 1 ELSE nVideos
  /\ hasUpdated' = TRUE
  /\ IF updatedStarts
       THEN /\ _startWebRtc(RenderedAfter, VideoAfter, TRUE)
            /\ isUpdatePending' = (_error # NoError)
            /\ changedProperties' = {}
       ELSE /\ isUpdatePending' = FALSE
            /\ changedProperties' = {}
            /\ UNCHANGED <<_error, videoElCached, _videoEl, _peerConnection, _remoteStream,
                           _unsub, _sessionId, _candidatesList, tasks, pcState,
                           unsubQueued, stopped>>
  /\ UNCHANGED <<variant, entityid, isConnected, updatingEnabled, srcObject, localDesc,
                 remoteDesc, trackListeners, remoteCandidates, nCandidates,
                 subState, offerSdp, offerPc, sessionDelivered, nRemoteCandidates, srd,
                 streamTracks, nTracks, out, nTriggers>>

\* A requested update runs as a microtask: before the browser dispatches the
\* next task (a reply from the backend, an event of a connection or of a
\* video element), though not before the code that is running now (the
\* owner connecting, disconnecting or setting properties) has finished.
NoUpdateDue == ~(updatingEnabled /\ isUpdatePending)

\* ------------------------------------------- _startWebRtc after its awaits
\* A promise of a connection's operation settles while the connection is
\* open; on a connection closed meanwhile it stays pending; an operation
\* called on a closed connection (doomed) is rejected.
CanResolve(op) == pcState[op.on] = "open" /\ ~op.doomed
CanReject(op) == pcState[op.on] = "open" \/ op.doomed

\* The call has ended: it returned, or threw with nothing to catch it.
Ended(t) == [task EXCEPT ![t] = [pc |-> "ended", on |-> 0, doomed |-> FALSE]]

\* Where the new RTCPeerConnection of attempt t is kept: the field in
\* part_000, a local constant in ha-web-rtc-player.ts.
fieldAfterNew(t) == t
fieldAfterNew_ts(t) == _peerConnection

\* The connection _startWebRtc talks to after an await: whatever the field
\* holds then in part_000, its own local connection in ha-web-rtc-player.ts.
connectionOf(t) == _peerConnection
connectionOf_ts(t) == t

ConnectionOf(t) == IF variant = "part_000" THEN connectionOf(t) ELSE connectionOf_ts(t)

\* fetchWebRtcClientConfiguration resolved: the connection is created, the
\* icecandidate listener registered and createOffer called.
fetchResolved(t) ==
  /\ NoUpdateDue
  /\ task[t].pc = "fetch"
  /\ pcState' = [pcState EXCEPT ![t] = "open"]
  /\ _peerConnection' = IF variant = "part_000" THEN fieldAfterNew(t) ELSE fieldAfterNew_ts(t)
  /\ _candidatesList' = <<>>
  /\ task' = [task EXCEPT ![t] = [pc |-> "createOffer", on |-> t, doomed |-> FALSE]]
  /\ UNCHANGED <<variant, entityid, _error, videoElCached, _videoEl, _remoteStream, _unsub,
                 _sessionId, lit, dom, nStarts, candidates, localDesc, remoteDesc,
                 trackListeners, remoteCandidates, nCandidates, subs, srd, media, out,
                 nTriggers>>

\* fetchWebRtcClientConfiguration rejected: nothing catches it.
fetchRejected(t) ==
  /\ NoUpdateDue
  /\ task[t].pc = "fetch"
  /\ task' = Ended(t)
  /\ UNCHANGED <<variant, fields, lit, dom, nStarts, candidates, pcs, subs, srd, media,
                 out, nTriggers>>

\* createOffer resolved: setLocalDescription is called on ConnectionOf(t); a
\* field that is undefined by now makes the call a TypeError.
createOfferResolved(t) ==
  /\ NoUpdateDue
  /\ task[t].pc = "createOffer"
  /\ CanResolve(task[t])
  /\ LET x == ConnectionOf(t) IN
       IF x = 0
         THEN /\ task' = Ended(t)
              /\ UNCHANGED localDesc
         ELSE /\ task' = [task EXCEPT ![t] = [pc |-> "setLocalDescription", on |-> x,
                                             doomed |-> pcState[x] # "open"]]
              /\ localDesc' = [localDesc EXCEPT ![x] = TRUE]
  /\ UNCHANGED <<variant, fields, lit, dom, nStarts, candidates, pcState, remoteDesc,
                 trackListeners, remoteCandidates, nCandidates, subs, srd, media,
                 out, nTriggers>>

createOfferRejected(t) ==
  /\ NoUpdateDue
  /\ task[t].pc = "createOffer"
  /\ CanReject(task[t])
  /\ task' = Ended(t)
  /\ UNCHANGED <<variant, fields, lit, dom, nStarts, candidates, pcs, subs, srd, media,
                 out, nTriggers>>

setLocalDescriptionRejected(t) ==
  /\ NoUpdateDue
  /\ task[t].pc = "setLocalDescription"
  /\ CanReject(task[t])
  /\ task' = Ended(t)
  /\ UNCHANGED <<variant, fields, lit, dom, nStarts, candidates, pcs, subs, srd, media,
                 out, nTriggers>>

\* ha-web-rtc-player.ts stores its connection in the field only now.
fieldBeforeOffer(t) == _peerConnection
fieldBeforeOffer_ts(t) == t

FieldBeforeOffer(t) ==
  IF variant = "part_000" THEN fieldBeforeOffer(t) ELSE fieldBeforeOffer_ts(t)

\* setLocalDescription resolved and webRtcOffer threw: the catch block sets
\* _error and closes ConnectionOf(t) (a TypeError when that is undefined).
offerThrew(t) ==
  LET x == ConnectionOf(t) IN
  /\ NoUpdateDue
  /\ task[t].pc = "setLocalDescription"
  /\ CanResolve(task[t])
  /\ _peerConnection' = FieldBeforeOffer(t)
  /\ _error' = ErrStart
  /\ RequestOnError(ErrStart)
  /\ IF x = 0
       THEN /\ task' = Ended(t)
            /\ UNCHANGED pcState
       ELSE /\ task' = Ended(t)
            /\ pcState' = [pcState EXCEPT ![x] = "closed"]
  /\ UNCHANGED <<variant, entityid, videoElCached, _videoEl, _remoteStream, _unsub,
                 _sessionId, _candidatesList, isConnected, updatingEnabled, hasUpdated,
                 dom, nStarts, candidates, localDesc, remoteDesc, trackListeners,
                 remoteCandidates, nCandidates, subs, srd, media, out, nTriggers>>

\* setLocalDescription resolved and webRtcOffer returned its promise (which
\* subscribes, or rejects later: ok says which).  The offer carries the
\* closure's candidates; then the track listener is added to ConnectionOf(t)
\* (a TypeError when that is undefined) and the stream stored.
offerSent(t, ok) ==
  LET x == ConnectionOf(t) IN
  /\ NoUpdateDue
  /\ task[t].pc = "setLocalDescription"
  /\ CanResolve(task[t])
  /\ _peerConnection' = FieldBeforeOffer(t)
  /\ _unsub' = t
  /\ subState' = [subState EXCEPT ![t] = IF ok THEN "active" ELSE "rejected"]
  /\ offerSdp' = [offerSdp EXCEPT ![t] = candidates[t]]
  /\ offerPc' = [offerPc EXCEPT ![t] = FieldBeforeOffer(t)]
  /\ IF x = 0
       THEN /\ task' = Ended(t)
            /\ UNCHANGED <<trackListeners, _remoteStream>>
       ELSE /\ task' = Ended(t)
            /\ trackListeners' = [trackListeners EXCEPT ![x] = Append(@, t)]
            /\ _remoteStream' = t
  /\ UNCHANGED <<variant, entityid, _error, videoElCached, _videoEl, _sessionId,
                 _candidatesList, lit, dom, nStarts, candidates, pcState, localDesc,
                 remoteDesc, remoteCandidates, nCandidates, unsubQueued,
                 sessionDelivered, nRemoteCandidates, srd, media, out, nTriggers>>

\* ------------------------------------------------- the icecandidate listener
\* The listener attempt p registered on its connection.  A candidate goes to
\* the backend when a session id is known, to the pending list when an offer
\* was sent, and into the closure's SDP lines otherwise.
icecandidate(p) ==
  LET c == <<p, nCandidates + 1>> IN
  /\ NoUpdateDue
  /\ pcState[p] = "open"
  /\ localDesc[p]
  /\ nCandidates < MaxCandidates
  /\ nCandidates' = nCandidates + 1
  /\ IF _sessionId # 0
       THEN /\ submitted' = Append(submitted, [entity |-> entityid, session |-> _sessionId, cand |-> c])
            /\ UNCHANGED <<_candidatesList, candidates>>
       ELSE IF _unsub # 0
         THEN /\ _candidatesList' = Append(_candidatesList, c)
              /\ UNCHANGED <<submitted, candidates>>
         ELSE /\ candidates' = [candidates EXCEPT ![p] = Append(@, c)]
              /\ UNCHANGED <<submitted, _candidatesList>>
  /\ UNCHANGED <<variant, entityid, _error, videoElCached, _videoEl, _peerConnection,
                 _remoteStream, _unsub, _sessionId, lit, dom, nStarts, task, pcState,
                 localDesc, remoteDesc, trackListeners, remoteCandidates, subs,
                 srd, media, nLoadedData, nLoadEvents, nTriggers>>

\* The event without a candidate: gathering is complete, the listener returns.
gatheringComplete(p) ==
  /\ NoUpdateDue
  /\ pcState[p] = "open"
  /\ localDesc[p]
  /\ UNCHANGED vars

\* -------------------------------------------------------- _handleOfferEvent
Flush(list, session) ==
  [i \in 1..Len(list) |-> [entity |-> entityid, session |-> session, cand |-> list[i]]]

\* The session_id branch without its last line: the pending list is kept.
candidatesListKept == _candidatesList

\* this._candidatesList = [] at the end of the session_id branch.
candidatesListAfterSessionId == <<>>

\* event.type === "session_id" on subscription s (its session id is s).
sessionIdEvent(s) ==
  /\ NoUpdateDue
  /\ subState[s] = "active"
  /\ ~sessionDelivered[s]
  /\ sessionDelivered' = [sessionDelivered EXCEPT ![s] = TRUE]
  /\ _sessionId' = s
  /\ submitted' = submitted \o Flush(_candidatesList, s)
  /\ _candidatesList' = candidatesListAfterSessionId
  /\ UNCHANGED <<variant, entityid, _error, videoElCached, _videoEl, _peerConnection,
                 _remoteStream, _unsub, lit, dom, tasks, pcs, subState, unsubQueued,
                 offerSdp, offerPc, nRemoteCandidates, srd, media, nLoadedData,
                 nLoadEvents, nTriggers>>

\* event.type === "answer" on subscription s: _handleAnswer calls
\* setRemoteDescription on the field's connection, if there is one.
answerEvent(s, a) ==
  /\ NoUpdateDue
  /\ subState[s] = "active"
  /\ srd[a].st = "none"
  /\ \A b \in Answers : b < a => srd[b].st # "none"
  /\ srd' = [srd EXCEPT ![a] =
       IF _peerConnection = 0
         THEN [st |-> "skipped", sub |-> s, on |-> 0, doomed |-> FALSE]
         ELSE [st |-> "pending", sub |-> s, on |-> _peerConnection,
               doomed |-> pcState[_peerConnection] # "open"]]
  /\ UNCHANGED <<variant, fields, lit, dom, tasks, pcs, subs, media, out, nTriggers>>

\* event.type === "candidate" on subscription s.
candidateEvent(s) ==
  /\ NoUpdateDue
  /\ subState[s] = "active"
  /\ nRemoteCandidates < MaxRemoteCandidates
  /\ nRemoteCandidates' = nRemoteCandidates + 1
  /\ remoteCandidates' =
       IF _peerConnection = 0 THEN remoteCandidates
       ELSE [remoteCandidates EXCEPT ![_peerConnection] = @ \cup {s}]
  /\ UNCHANGED <<variant, fields, lit, dom, tasks, pcState, localDesc, remoteDesc,
                 trackListeners, nCandidates, subState, unsubQueued, offerSdp, offerPc,
                 sessionDelivered, srd, media, out, nTriggers>>

\* ------------------------------------------- _handleAnswer after its await
setRemoteDescriptionResolved(a) ==
  /\ NoUpdateDue
  /\ srd[a].st = "pending"
  /\ CanResolve(srd[a])
  /\ remoteDesc' = [remoteDesc EXCEPT ![srd[a].on] = TRUE]
  /\ srd' = [srd EXCEPT ![a].st = "resolved"]
  /\ UNCHANGED <<variant, fields, lit, dom, tasks, pcState, localDesc,
                 trackListeners, remoteCandidates, nCandidates, subs, media, out,
                 nTriggers>>

\* The catch block: _error is set and the field's connection closed.
setRemoteDescriptionRejected(a) ==
  /\ NoUpdateDue
  /\ srd[a].st = "pending"
  /\ CanReject(srd[a])
  /\ _error' = ErrConnect
  /\ RequestOnError(ErrConnect)
  /\ pcState' = ClosePeerConnection
  /\ srd' = [srd EXCEPT ![a].st = "rejected"]
  /\ UNCHANGED <<variant, entityid, videoElCached, _videoEl, _peerConnection, _remoteStream,
                 _unsub, _sessionId, _candidatesList, isConnected, updatingEnabled,
                 hasUpdated, dom, tasks, localDesc, remoteDesc, trackListeners,
                 remoteCandidates, nCandidates, subs, media, out, nTriggers>>

\* The unsubscribe function queued by _cleanUp takes effect.
unsubscribe(s) ==
  /\ NoUpdateDue
  /\ subState[s] = "active"
  /\ unsubQueued[s]
  /\ subState' = [subState EXCEPT ![s] = "unsubscribed"]
  /\ UNCHANGED <<variant, fields, lit, dom, tasks, pcs, unsubQueued, offerSdp, offerPc,
                 sessionDelivered, nRemoteCandidates, srd, media, out, nTriggers>>

\* --------------------------------------------------------- the track listener
\* A track event on connection p runs the listeners registered on it, in
\* order: each adds the track to its stream and assigns the stream to
\* this._videoEl.srcObject (a TypeError when the cached query holds null).
Streams(p) == {trackListeners[p][i] : i \in 1..Len(trackListeners[p])}

track(p) ==
  LET tr == nTracks + 1
      ls == trackListeners[p] IN
  /\ NoUpdateDue
  /\ pcState[p] = "open"
  /\ remoteDesc[p]
  /\ nTracks < MaxTracks
  /\ nTracks' = tr
  /\ streamTracks' = [st \in Attempts |->
       IF st \in Streams(p) THEN streamTracks[st] \cup {tr} ELSE streamTracks[st]]
  /\ IF ls = <<>>
       THEN UNCHANGED <<videoElCached, _videoEl, srcObject>>
       ELSE \E q \in Query(rendered, video, hasUpdated) :
              /\ videoElCached' = q.cached
              /\ _videoEl' = q.el
              /\ srcObject' = IF q.el = 0 THEN srcObject
                              ELSE [srcObject EXCEPT ![q.el] = ls[Len(ls)]]
  /\ UNCHANGED <<variant, entityid, _error, _peerConnection, _remoteStream, _unsub,
                 _sessionId, _candidatesList, lit, rendered, video, nVideos, tasks, pcs,
                 subs, srd, stopped, out, nTriggers>>

\* ------------------------------------------------------------- _loadedData
\* A video element created by render() notifies loadeddata once its stream
\* has a live track; its @loadeddata listener fires "load".
loadeddata(v) ==
  /\ NoUpdateDue
  /\ v <= nVideos
  /\ srcObject[v] # 0
  /\ streamTracks[srcObject[v]] \ stopped # {}
  /\ nLoadedData < MaxLoads
  /\ nLoadedData' = nLoadedData + 1
  /\ nLoadEvents' = nLoadEvents + 1
  /\ UNCHANGED <<variant, fields, lit, dom, tasks, pcs, subs, srd, media, submitted,
                 nTriggers>>

\* ---------------------------------------------------------------- the system
Next ==
  \/ connectedCallback
  \/ disconnectedCallback
  \/ SetEntityid
  \/ SetOtherProperty
  \/ performUpdate
  \/ \E t \in Attempts : fetchResolved(t)
  \/ \E t \in Attempts : fetchRejected(t)
  \/ \E t \in Attempts : createOfferResolved(t)
  \/ \E t \in Attempts : createOfferRejected(t)
  \/ \E t \in Attempts : setLocalDescriptionRejected(t)
  \/ \E t \in Attempts : offerThrew(t)
  \/ \E t \in Attempts, ok \in BOOLEAN : offerSent(t, ok)
  \/ \E p \in Attempts : icecandidate(p)
  \/ \E p \in Attempts : gatheringComplete(p)
  \/ \E s \in Attempts : sessionIdEvent(s)
  \/ \E s \in Attempts, a \in Answers : answerEvent(s, a)
  \/ \E s \in Attempts : candidateEvent(s)
  \/ \E a \in Answers : setRemoteDescriptionResolved(a)
  \/ \E a \in Answers : setRemoteDescriptionRejected(a)
  \/ \E s \in Attempts : unsubscribe(s)
  \/ \E p \in Attempts : track(p)
  \/ \E v \in Videos : loadeddata(v)

Spec == Init /\ [][Next]_vars

\* ------------------------------------------------------------ the claims
StartStep == nStarts' = nStarts + 1
DisconnectStep == isConnected /\ ~isConnected'
OpenConnections == {p \in Attempts : pcState[p] = "open"}
LiveSubscriptions == {s \in Attempts : subState[s] = "active" /\ ~unsubQueued[s]}
Suspended(t) == task[t].pc \in {"fetch", "createOffer", "setLocalDescription"}

\* C1: when _startWebRtc is entered, everything earlier attempts hold is
\* released by the time it suspends (so before it creates its connection):
\* every connection they created is closed, every track added to their
\* streams is stopped, and every subscription of theirs that is still active
\* has its unsubscribe queued.
C1_StartReleasesPrevious ==
  [][StartStep =>
       \A t \in 1..nStarts :
         /\ pcState'[t] # "open"
         /\ streamTracks'[t] \subseteq stopped'
         /\ subState'[t] = "active" => unsubQueued'[t]]_vars

\* C2: at most one connection created by the element is open, and at most one
\* signaling subscription is active without its unsubscribe being queued.
C2_NoConcurrentAttempts ==
  /\ Cardinality(OpenConnections) <= 1
  /\ Cardinality(LiveSubscriptions) <= 1

\* C3: when setRemoteDescription rejects in _handleAnswer, _error is set and
\* the connection the call was made on is closed.
C3_FailedAnswerClosesItsConnection ==
  [][\A a \in Answers :
       setRemoteDescriptionRejected(a) =>
         /\ _error' # NoError
         /\ pcState'[srd[a].on] = "closed"]_vars

\* C4: when the configuration fetch of an attempt rejects, the attempt ends
\* with _error set and with no connection of its own open.
C4_FetchFailureShowsError ==
  [][\A t \in Attempts :
       fetchRejected(t) => _error' # NoError /\ pcState'[t] # "open"]_vars

\* C5: when createOffer or setLocalDescription rejects, or webRtcOffer throws
\* or returns a promise that rejects, _error is set and the connection the
\* attempt created is closed.
C5_OfferFailureShowsError ==
  [][\A t \in Attempts :
       (\/ createOfferRejected(t)
        \/ setLocalDescriptionRejected(t)
        \/ offerThrew(t)
        \/ offerSent(t, FALSE))
       => _error' # NoError /\ pcState'[t] = "closed"]_vars

\* C6: the element never retries: the attempts started never outnumber the
\* external triggers (changes of entityid, and connectedCallback calls after
\* the first), and an attempt starts only in a connectedCallback or in an
\* update whose changed properties include entityid; so a failure and the
\* re-render it causes start nothing.
ConnectStep == ~isConnected /\ isConnected'

C6_NoRetry ==
  [][/\ nStarts' <= nTriggers'
     /\ StartStep => ConnectStep \/ "entityid" \in changedProperties]_vars

\* An attempt has failed, the alert is rendered, every call has ended, and no
\* attempt beyond the triggered ones was started.
C6_Witness ==
  /\ _error # NoError
  /\ rendered = "alert"
  /\ ~isUpdatePending
  /\ nStarts >= 1
  /\ nStarts = nTriggers
  /\ \A t \in Attempts : ~Suspended(t)

\* C7: right after _cleanUp has run (in disconnectedCallback, or at the start
\* of an attempt where _startWebRtc calls it) every session handle is
\* discarded: the connection field is unset and that connection closed, the
\* stream field unset and its tracks stopped, the pending candidates empty,
\* the session id unset, the subscription field unset and its unsubscribe
\* queued.
CleanUpStep == DisconnectStep \/ (StartStep /\ variant = "part_000")

C7_CleanUpDiscardsHandles ==
  [][CleanUpStep =>
       /\ _peerConnection' = 0
       /\ _peerConnection # 0 => pcState'[_peerConnection] = "closed"
       /\ _remoteStream' = 0
       /\ _remoteStream # 0 => streamTracks[_remoteStream] \subseteq stopped'
       /\ _candidatesList' = <<>>
       /\ _sessionId' = 0
       /\ _unsub' = 0
       /\ _unsub # 0 => unsubQueued'[_unsub]]_vars

\* C8: within an attempt the configuration fetch completes before the
\* connection is created; setLocalDescription has been called before the
\* offer is sent; the track listener of the attempt is registered before an
\* answer event of its subscription is handled; setRemoteDescription is
\* called only for an answer event of a subscription whose offer was sent.
HasTrackListener(s) == \E p \in Attempts : s \in Streams(p)

StepOrder ==
  /\ \A t \in Attempts :
       /\ pcState[t] # "none" => task[t].pc \notin {"idle", "fetch"}
       /\ subState[t] # "none" => task[t].pc = "ended" /\ (\E p \in Attempts : localDesc[p])
  /\ \A a \in Answers : srd[a].st # "none" => subState[srd[a].sub] # "none"

C8_StepOrder ==
  [][/\ StepOrder'
     /\ \A s \in Attempts, a \in Answers : answerEvent(s, a) => HasTrackListener(s)]_vars

\* C9: the banner reflects only the current attempt: starting an attempt
\* clears _error; _error is set only by a failing step of the latest attempt
\* (its webRtcOffer throwing, or setRemoteDescription rejecting for an answer
\* of its subscription); and once the element has rendered, exactly one of
\* the alert and the video is rendered.
C9_BannerOfCurrentAttempt ==
  [][/\ StartStep => _error' = NoError
     /\ \A t \in Attempts : offerThrew(t) => t = nStarts
     /\ \A a \in Answers : setRemoteDescriptionRejected(a) => srd[a].sub = nStarts
     /\ hasUpdated' => rendered' \in {"video", "alert"}]_vars

\* C10: when a track arrives on the connection the element holds, with the
\* video rendered and the cached query holding an element, the stream of a
\* listener of that connection is attached to the rendered video (the step
\* the eventual attachment rests on); and "load" is fired once per loadeddata
\* notification, never without one.
C10_StreamReachesVideo ==
  [][/\ \A p \in Attempts :
          (/\ track(p)
           /\ p = _peerConnection
           /\ trackListeners[p] # <<>>
           /\ rendered = "video"
           /\ _videoEl' # 0)
          => srcObject'[video] \in Streams(p)
     /\ nLoadEvents' = nLoadedData']_vars

\* C11: a candidate gathered by the connection of the latest attempt goes to
\* exactly one place: into the offer (the closure's SDP lines) while that
\* attempt has not sent its offer, to the end of the pending list once the
\* offer is sent and until the session id of its subscription has arrived, and
\* straight to addWebRtcCandidate after that; the session_id event of the
\* latest attempt submits the pending list in order and only candidates of
\* that attempt's connection; the offer carries the closure's candidates; the
\* end-of-gathering event submits nothing.
Cands(calls) == [i \in 1..Len(calls) |-> calls[i].cand]
OfferWasSent(p) == subState[p] # "none"

C11_CandidatesDelivered ==
  [][/\ \A p \in Attempts :
          (icecandidate(p) /\ p = nStarts) =>
            LET c == <<p, nCandidates + 1>> IN
            IF ~OfferWasSent(p)
              THEN /\ candidates'[p] = Append(candidates[p], c)
                   /\ submitted' = submitted /\ _candidatesList' = _candidatesList
            ELSE IF ~sessionDelivered[p]
              THEN /\ _candidatesList' = Append(_candidatesList, c)
                   /\ submitted' = submitted /\ candidates' = candidates
              ELSE /\ Cands(submitted') = Append(Cands(submitted), c)
                   /\ _candidatesList' = _candidatesList /\ candidates' = candidates
     /\ \A s \in Attempts :
          (sessionIdEvent(s) /\ s = nStarts) =>
            /\ Cands(submitted') = Cands(submitted) \o _candidatesList
            /\ \A i \in 1..Len(_candidatesList) : _candidatesList[i][1] = s
     /\ \A t \in Attempts, ok \in BOOLEAN :
          offerSent(t, ok) => offerSdp'[t] = candidates[t]
     /\ \A p \in Attempts : gatheringComplete(p) => submitted' = submitted]_vars

\* C12: every addWebRtcCandidate call pairs a candidate with the session id
\* delivered on the subscription of the attempt whose connection gathered it
\* (attempt t's connection, subscription and session id all carry t); a
\* session id of another attempt is never used.
C12_SessionIdOfSameAttempt ==
  \A i \in 1..Len(submitted) : submitted[i].session = submitted[i].cand[1]

\* C13: while the element is disconnected (after a disconnectedCallback) and
\* nothing asynchronous is pending (no _startWebRtc or _handleAnswer call is
\* suspended, no update is due, every queued unsubscribe has taken effect),
\* no connection is open, no track of a stream is unstopped and no
\* subscription is active.
Quiescent ==
  /\ \A t \in Attempts : ~Suspended(t)
  /\ \A a \in Answers : srd[a].st # "pending"
  /\ NoUpdateDue
  /\ \A s \in Attempts : unsubQueued[s] => subState[s] # "active"

C13_NothingHeldAfterDisconnect ==
  (updatingEnabled /\ ~isConnected /\ Quiescent) =>
    /\ OpenConnections = {}
    /\ \A st \in Attempts : streamTracks[st] \subseteq stopped
    /\ \A s \in Attempts : subState[s] # "active"

\* C14: signaling events reach only their own attempt.  The offer sent on
\* subscription s was created by connection s, so: setRemoteDescription for an
\* answer of subscription s is called on connection s; a remote candidate of
\* subscription s is added to connection s; and an event of a subscription
\* of an attempt that a later attempt has superseded changes neither the
\* session id nor the pending candidates, and is applied to no connection of
\* the later attempt.
Superseded(s) == s < nStarts

C14_EventsReachOwnAttempt ==
  [][/\ \A a \in Answers : srd'[a].st = "pending" => srd'[a].on = srd'[a].sub
     /\ \A p \in Attempts : remoteCandidates'[p] \subseteq {p}
     /\ \A s \in Attempts :
          (sessionIdEvent(s) /\ Superseded(s)) =>
            UNCHANGED <<_sessionId, _candidatesList, submitted>>]_vars

\* C15: one attempt per trigger.  A connectedCallback before the element has
\* ever updated starts no attempt, one after it has updated starts exactly
\* one; an update whose changed properties include entityid starts exactly
\* one, any other update starts none; and an attempt is started only while
\* the element is connected.
UpdateStep == isUpdatePending /\ performUpdate

C15_OneAttemptPerTrigger ==
  [][/\ nStarts' \in {nStarts, nStarts + 1}
     /\ ConnectStep => (StartStep <=> hasUpdated)
     /\ UpdateStep => (StartStep <=> "entityid" \in changedProperties)
     /\ StartStep => isConnected']_vars

\* C16: an update whose changed properties lack entityid (another property
\* was set, or _error changed) starts no attempt and leaves the session as it
\* is: the connection field and every connection's state, the stream field
\* and the stopped tracks, the subscription field and every subscription's
\* state, the session id and the pending candidates.
Session ==
  <<_peerConnection, pcState, _remoteStream, stopped, _unsub, subState, unsubQueued,
    _sessionId, _candidatesList, nStarts, task>>

C16_OtherUpdatesKeepSession ==
  [][((UpdateStep /\ "entityid" \notin changedProperties) \/ SetOtherProperty)
       => UNCHANGED Session]_vars

\* The update that followed a failed setRemoteDescription has rendered the
\* alert, and the element still holds its connection, stream, subscription
\* and session id.
C16_Witness ==
  /\ rendered = "alert"
  /\ ~isUpdatePending
  /\ _error = ErrConnect
  /\ _peerConnection # 0
  /\ _remoteStream # 0
  /\ _unsub # 0
  /\ _sessionId # 0
  /\ subState[_unsub] = "active"

\* C17: the pending-candidate list is non-empty only while an offer has been
\* sent (the subscription field is set) and no session id is known: with the
\* session id set the list is empty, and with no subscription the list is
\* empty.
C17_PendingOnlyBetweenOfferAndSession ==
  /\ _sessionId # 0 => _candidatesList = <<>>
  /\ _unsub = 0 => _candidatesList = <<>>

\* A candidate gathered after the offer and before the session id is pending.
C17_Witness ==
  /\ _candidatesList # <<>>
  /\ _unsub # 0
  /\ _sessionId = 0
  /\ subState[_unsub] = "active"

\* C18: this._videoEl is the video element in the current render output.
\* When a track arrives on the connection of the latest attempt, which has its
\* track listener, while the video is rendered, that attempt's stream becomes
\* the srcObject of the rendered video element; and when _cleanUp runs with
\* the video rendered, the element it resets is the rendered one.
C18_StreamOnRenderedVideo ==
  [][/\ \A p \in Attempts :
          (track(p) /\ p = nStarts /\ p \in Streams(p) /\ rendered = "video")
            => /\ _videoEl' = video
               /\ srcObject'[video] = p
     /\ (CleanUpStep /\ rendered' = "video") => _videoEl' = video']_vars

====
